---- MODULE Spec2Model ----
(***************************************************************************)
(* Model of the /analyze_case endpoint (src/main.py) and of the helpers it *)
(* drives (src/ai.py): request validation, the per-image loop of           *)
(* format_messages with upload_to_storage, and the handler's error         *)
(* translation.                                                            *)
(*                                                                         *)
(* Strings are modelled as sequences of tokens (each token a short piece   *)
(* of text), so that startswith, `in`, split and strip are computed the    *)
(* way the code computes them.                                             *)
(*                                                                         *)
(* The handler is `async def` but every call it makes is a plain blocking  *)
(* call, so one handler runs from start to response without yielding the   *)
(* event loop: the model has one handler frame, plus a count of requests   *)
(* that were accepted and wait for the loop.                               *)
(***************************************************************************)
EXTENDS Integers, Sequences, FiniteSets, TLC

\* ---------------------------------------------------------------- bounds
MaxImages == 2
MaxRequests == 2

\* ------------------------------------------------------- string helpers
WS == {" "}

RECURSIVE LStrip(_)
LStrip(s) == IF s # <<>> /\ Head(s) \in WS THEN LStrip(Tail(s)) ELSE s

RECURSIVE RStrip(_)
RStrip(s) ==
    IF s # <<>> /\ s[Len(s)] \in WS THEN RStrip(SubSeq(s, 1, Len(s) - 1)) ELSE s

\* str.strip()
Strip(s) == RStrip(LStrip(s))

\* str.startswith(p)
StartsWith(s, p) == Len(s) >= Len(p) /\ SubSeq(s, 1, Len(p)) = p

\* position of the first occurrence of p in s, 0 when there is none
\* (a function, so that its arguments are evaluated once)
FindAt[s \in Seq(STRING), p \in Seq(STRING)] ==
    LET hits == {k \in 1..(Len(s) - Len(p) + 1) : SubSeq(s, k, k + Len(p) - 1) = p}
    IN  IF hits = {} THEN 0 ELSE CHOOSE k \in hits : \A j \in hits : k <= j

Find(s, p) == FindAt[s, p]

\* `p in s`
Contains(s, p) == Find(s, p) # 0

\* s.split(sep): every piece between occurrences of sep
SplitAt[s \in Seq(STRING), sep \in Seq(STRING)] ==
    LET k == Find(s, sep)
    IN  IF k = 0 THEN <<s>>
        ELSE <<SubSeq(s, 1, k - 1)>> \o SplitAt[SubSeq(s, k + Len(sep), Len(s)), sep]

Split(s, sep) == SplitAt[s, sep]

\* s.split(sep, 1): at most one cut, at the first occurrence of sep
SplitOnce(s, sep) ==
    LET k == Find(s, sep)
    IN  IF k = 0 THEN <<s>>
        ELSE <<SubSeq(s, 1, k - 1), SubSeq(s, k + Len(sep), Len(s))>>

\* number of base64-alphabet characters (A-Z a-z 0-9 + /) of each token
B64Chars(tok) ==
    CASE tok = "data"    -> 4
      [] tok = "image"   -> 5
      [] tok = "/"       -> 1
      [] tok = "png"     -> 3
      [] tok = "gif"     -> 3
      [] tok = "jpeg"    -> 4
      [] tok = "webp"    -> 4
      [] tok = "svg+xml" -> 7
      [] tok = "base64"  -> 6
      [] tok = "QUJD"    -> 4
      [] tok = "QUJ"     -> 3
      [] tok = "/9j/4AAQ" -> 8
      [] tok = "blob"    -> 4
      [] tok = "http"    -> 4
      [] tok = "//host/img.png" -> 13
      [] OTHER           -> 0

RECURSIVE B64Count(_)
B64Count(s) == IF s = <<>> THEN 0 ELSE B64Chars(Head(s)) + B64Count(Tail(s))

\* base64.b64decode(s) with validate=False: characters outside the alphabet
\* are discarded, and what remains must be whole groups of four characters
\* (none of the tokens carries '=' padding); otherwise binascii.Error.
B64DecodeAt[s \in Seq(STRING)] ==
    [ok   |-> B64Count(s) % 4 = 0,
     data |-> <<"bytes">> \o SelectSeq(s, LAMBDA t : B64Chars(t) > 0)]

B64Decode(s) == B64DecodeAt[s]

\* ------------------------------------------------------------- payloads
Mime(sub) == <<"image", "/", sub>>
DataUri(sub, marker, body) ==
    <<"data", ":">> \o Mime(sub) \o (IF marker THEN <<";", "base64">> ELSE <<>>)
        \o <<",", body>>

PngUri  == DataUri("png", TRUE, "QUJD")
SvgUri  == DataUri("svg+xml", TRUE, "QUJD")
SvgBare == DataUri("svg+xml", FALSE, "QUJD")
BadB64  == DataUri("gif", TRUE, "QUJ")
RawB64  == <<"/9j/4AAQ">>
BlobUrl == <<"blob", ":", "http", ":", "//host/img.png">>
Blank   == <<" ">>
Empty   == <<>>

Payloads == {PngUri, SvgUri, SvgBare, BadB64, RawB64, BlobUrl, Blank, Empty}
Titles == {"", "Case A"}

UrlLists == UNION {[1..n -> Payloads] : n \in 0..MaxImages}

\* --------------------------------------------------- program constants
allowed_types == {Mime("png"), Mime("jpeg"), Mime("gif"), Mime("webp")}
Bucket == "bucket"
Today == "2024/01/01"
Null == "null"

\* ---------------------------------------------------------------- state
VARIABLES
    pending,          \* requests accepted by the server, waiting for the event loop
    served,           \* number of requests whose handler has started
    pc,               \* position of the running handler
    case_title,       \* handler argument
    screenshot_urls,  \* handler argument
    env,              \* what the model provider and the database would answer
    idx,              \* format_messages: position of the loop over image_urls
    key,              \* format_messages: key of the current image
    put,              \* arguments of the put_object call in flight
    processed_images, \* format_messages: image items built so far
    outcomes,         \* format_messages: what the loop did with each entry (its log)
    messages,         \* the payload returned by format_messages
    response,         \* the HTTP response of the running handler
    storage,          \* objects in the bucket
    rows,             \* rows of table viet_cases
    modelLog,         \* payloads sent to the model provider
    putLog,           \* the put_object calls made so far: request, entry, key
    nextUuid          \* uuid4(): a token never handed out before

frame == <<pc, case_title, screenshot_urls, env, idx, key, put,
           processed_images, outcomes, messages, response>>
world == <<storage, rows, modelLog, putLog, nextUuid>>
vars == <<pending, served, frame, world>>

NoResponse == [status |-> 0, detail |-> <<>>]
NoKey == [prefix |-> "none", date |-> "none", token |-> 0, ext |-> "none"]
NoPut == [Key |-> NoKey, Body |-> <<>>, ContentType |-> <<>>,
          ContentDisposition |-> "none", ACL |-> "none"]
Outcomes == {"ok", "raises"}
Envs == [model : Outcomes, db : Outcomes]
IdleEnv == [model |-> "ok", db |-> "ok"]

\* ------------------------------------------------------ pure functions
\* Validation with the loop over the entries stopping after the first entry
Validation_FirstEntryOnly(title, urls) ==
    IF title = "" THEN "Case title is required"
    ELSE IF urls = <<>> THEN "At least one screenshot URL is required"
    ELSE IF Strip(urls[1]) = <<>> THEN "Invalid screenshot URL provided"
    ELSE "ok"

\* main.py lines 54-65: the detail of the first violated check, or "ok"
Validation(title, urls) ==
    IF title = "" THEN "Case title is required"
    ELSE IF urls = <<>> THEN "At least one screenshot URL is required"
    ELSE IF \E k \in 1..Len(urls) : Strip(urls[k]) = <<>>
         THEN "Invalid screenshot URL provided"
    ELSE "ok"

\* main.py line 71
UserPrompt(title, context) == <<"Case title: ", title, "\nAdditional context: ", context>>

\* ai.py lines 113-121
InitialMessages(system_prompt, user_prompt) ==
    << [role |-> "system", content |-> <<system_prompt>>],
       [role |-> "user", content |-> <<[type |-> "text", text |-> user_prompt]>>] >>

\* the key built from the date alone, without the uuid4 token
MakeKey_DateOnly(token) == [prefix |-> "cases", date |-> Today, token |-> 0, ext |-> ".jpg"]

\* ai.py line 129: cases/<date>/<uuid4>.jpg
MakeKey(token) == [prefix |-> "cases", date |-> Today, token |-> token, ext |-> ".jpg"]

\* ai.py line 102
PermanentUrl(k) == [scheme |-> "https", host |-> <<Bucket, ".s3.amazonaws.com">>, path |-> k]

\* ai.py line 131
ImageItem(url) == [type |-> "image_url", image_url |-> [url |-> url]]

\* ai.py lines 70-76: the content type upload_to_storage resolves, and the
\* base64 text it goes on with
ResolveAt[base64_data \in Seq(STRING)] ==
    IF Contains(base64_data, <<",">>)
    THEN LET parts  == SplitOnce(base64_data, <<",">>)
             header == parts[1]
             colon  == Split(header, <<":">>)
         IN  IF Contains(header, <<";", "base64">>)
             THEN IF Len(colon) < 2
                  THEN [exc |-> "IndexError", content_type |-> <<>>, data |-> parts[2]]
                  ELSE [exc |-> "none",
                        content_type |-> Split(colon[2], <<";">>)[1],
                        data |-> parts[2]]
             ELSE [exc |-> "none", content_type |-> Mime("jpeg"), data |-> parts[2]]
    ELSE [exc |-> "none", content_type |-> Mime("jpeg"), data |-> base64_data]

ResolveContentType(base64_data) == ResolveAt[base64_data]

\* ai.py lines 68-98: everything upload_to_storage does before put_object
\* returns: either an exception, or the arguments of the put_object call
upload_to_storage(base64_data, k) ==
    LET r == ResolveContentType(base64_data)
        d == B64Decode(r.data)
    IN  IF r.exc # "none" THEN [exc |-> r.exc, call |-> NoPut]
        ELSE IF r.content_type \notin allowed_types
             THEN [exc |-> "ValueError", call |-> NoPut]
        ELSE IF ~d.ok THEN [exc |-> "binascii.Error", call |-> NoPut]
        ELSE [exc |-> "none",
              call |-> [Key |-> k, Body |-> d.data, ContentType |-> r.content_type,
                        ContentDisposition |-> "inline", ACL |-> "public-read"]]

\* isinstance(e, ValueError) for the exception classes of the model:
\* binascii.Error is a subclass of ValueError
IsValueError(exc) == exc \in {"ValueError", "binascii.Error"}

\* str(e) of the TypeError raised by awaiting a list (main.py 69)
AwaitListMessage == "object list can't be used in 'await' expression"

\* main.py lines 81-92: the response the except clauses around
\* format_messages give to an exception of class exc with str(e) = msg;
\* the detail is the sequence of the pieces of the formatted string
FormatStageResponse(exc, msg) ==
    IF IsValueError(exc)
    THEN [status |-> 400,
          detail |-> <<"Failed to process images: ", msg,
                       ". Please ensure all images are in supported formats (PNG, JPEG, GIF, or WEBP)">>]
    ELSE [status |-> 500,
          detail |-> <<"An unexpected error occurred while processing the images">>]

\* S3 put_object: the object under a key is replaced
PutObject(store, call, req) ==
    {o \in store : o.Key # call.Key}
        \cup {[Key |-> call.Key, Body |-> call.Body, ContentType |-> call.ContentType,
               ContentDisposition |-> call.ContentDisposition, ACL |-> call.ACL,
               req |-> req]}

\* ----------------------------------------------------------------- Init
Init ==
    /\ pending = 0
    /\ served = 0
    /\ pc = "idle"
    /\ case_title = ""
    /\ screenshot_urls = <<>>
    /\ env = IdleEnv
    /\ idx = 0
    /\ key = NoKey
    /\ put = NoPut
    /\ processed_images = <<>>
    /\ outcomes = <<>>
    /\ messages = <<>>
    /\ response = NoResponse
    /\ storage = {}
    /\ rows = {}
    /\ modelLog = <<>>
    /\ putLog = <<>>
    /\ nextUuid = 1

\* -------------------------------------------------------------- actions
\* a client posts a request; the server accepts it
Arrive ==
    /\ pending + served < MaxRequests
    /\ pending' = pending + 1
    /\ UNCHANGED <<served, frame, world>>

\* the event loop starts the handler of a waiting request
Start ==
    /\ pc = "idle"
    /\ pending > 0
    /\ pending' = pending - 1
    /\ served' = served + 1
    /\ \E t \in Titles, u \in UrlLists, e \in Envs :
          /\ case_title' = t
          /\ screenshot_urls' = u
          /\ env' = e
    /\ pc' = "validate"
    /\ UNCHANGED <<idx, key, put, processed_images, outcomes, messages, response, world>>

\* ValidateReject building the 400 response without leaving the handler
ValidateReject_NoRaise ==
    /\ pc = "validate"
    /\ Validation(case_title, screenshot_urls) # "ok"
    /\ response' = [status |-> 400, detail |-> <<Validation(case_title, screenshot_urls)>>]
    /\ pc' = "format"
    /\ UNCHANGED <<pending, served, case_title, screenshot_urls, env, idx, key, put,
                   processed_images, outcomes, messages, world>>

\* main.py lines 53-65, a violated check
ValidateReject ==
    /\ pc = "validate"
    /\ Validation(case_title, screenshot_urls) # "ok"
    /\ response' = [status |-> 400, detail |-> <<Validation(case_title, screenshot_urls)>>]
    /\ pc' = "done"
    /\ UNCHANGED <<pending, served, case_title, screenshot_urls, env, idx, key, put,
                   processed_images, outcomes, messages, world>>

\* main.py lines 53-65, every check passed
ValidatePass ==
    /\ pc = "validate"
    /\ Validation(case_title, screenshot_urls) = "ok"
    /\ pc' = "format"
    /\ UNCHANGED <<pending, served, case_title, screenshot_urls, env, idx, key, put,
                   processed_images, outcomes, messages, response, world>>

\* main.py lines 68-73 and ai.py lines 113-124: the client is built and
\* format_messages is entered
FormatBegin ==
    /\ pc = "format"
    /\ messages' = InitialMessages("SYSTEM_PROMPT", UserPrompt(case_title, Null))
    /\ processed_images' = <<>>
    /\ idx' = 1
    /\ pc' = IF screenshot_urls # <<>> THEN "loop" ELSE "await"
    /\ outcomes' = <<>>
    /\ UNCHANGED <<pending, served, case_title, screenshot_urls, env, key, put,
                   response, world>>

\* ai.py lines 128, 132-134: an entry that is not a data:image URI is skipped
LoopSkip ==
    /\ pc = "loop"
    /\ idx <= Len(screenshot_urls)
    /\ ~StartsWith(screenshot_urls[idx], <<"data", ":", "image">>)
    /\ idx' = idx + 1
    /\ outcomes' = Append(outcomes, "skipped")
    /\ UNCHANGED <<pending, served, pc, case_title, screenshot_urls, env, key, put,
                   processed_images, messages, response, world>>

\* ai.py lines 128-130, 68-87, 103-105, 135-137: upload_to_storage raises
\* before put_object; the loop logs it and goes on
LoopUploadRaise ==
    /\ pc = "loop"
    /\ idx <= Len(screenshot_urls)
    /\ StartsWith(screenshot_urls[idx], <<"data", ":", "image">>)
    /\ upload_to_storage(screenshot_urls[idx], MakeKey(nextUuid)).exc # "none"
    /\ key' = MakeKey(nextUuid)
    /\ nextUuid' = nextUuid + 1
    /\ idx' = idx + 1
    /\ outcomes' = Append(outcomes, "rejected")
    /\ UNCHANGED <<pending, served, pc, case_title, screenshot_urls, env, put,
                   processed_images, messages, response, storage, rows, modelLog,
                   putLog>>

\* ai.py lines 128-130, 68-99: upload_to_storage calls put_object
LoopUploadCall ==
    /\ pc = "loop"
    /\ idx <= Len(screenshot_urls)
    /\ StartsWith(screenshot_urls[idx], <<"data", ":", "image">>)
    /\ upload_to_storage(screenshot_urls[idx], MakeKey(nextUuid)).exc = "none"
    /\ key' = MakeKey(nextUuid)
    /\ nextUuid' = nextUuid + 1
    /\ put' = upload_to_storage(screenshot_urls[idx], MakeKey(nextUuid)).call
    /\ putLog' = Append(putLog, [req |-> served, pos |-> idx, Key |-> MakeKey(nextUuid)])
    /\ pc' = "put"
    /\ UNCHANGED <<pending, served, case_title, screenshot_urls, env, idx,
                   processed_images, outcomes, messages, response, storage, rows, modelLog>>

\* PutOk putting the new image item in front of the list
PutOk_Prepend ==
    /\ pc = "put"
    /\ storage' = PutObject(storage, put, served)
    /\ processed_images' = <<ImageItem(PermanentUrl(put.Key))>> \o processed_images
    /\ put' = NoPut
    /\ idx' = idx + 1
    /\ pc' = "loop"
    /\ outcomes' = Append(outcomes, "uploaded")
    /\ UNCHANGED <<pending, served, case_title, screenshot_urls, env, key,
                   messages, response, rows, modelLog, putLog, nextUuid>>

\* ai.py lines 92-102, 131: put_object stored the object; the image item
\* with the permanent URL is appended
PutOk ==
    /\ pc = "put"
    /\ storage' = PutObject(storage, put, served)
    /\ processed_images' = Append(processed_images, ImageItem(PermanentUrl(put.Key)))
    /\ put' = NoPut
    /\ idx' = idx + 1
    /\ pc' = "loop"
    /\ outcomes' = Append(outcomes, "uploaded")
    /\ UNCHANGED <<pending, served, case_title, screenshot_urls, env, key,
                   messages, response, rows, modelLog, putLog, nextUuid>>

\* PutFail appending the image item although put_object raised
PutFail_AppendAnyway ==
    /\ pc = "put"
    /\ processed_images' = Append(processed_images, ImageItem(PermanentUrl(put.Key)))
    /\ put' = NoPut
    /\ idx' = idx + 1
    /\ pc' = "loop"
    /\ outcomes' = Append(outcomes, "put_failed")
    /\ UNCHANGED <<pending, served, case_title, screenshot_urls, env, key,
                   messages, response, world>>

\* ai.py lines 92-99, 103-105, 135-137: put_object raises; the loop logs it
\* and goes on
PutFail ==
    /\ pc = "put"
    /\ put' = NoPut
    /\ idx' = idx + 1
    /\ pc' = "loop"
    /\ outcomes' = Append(outcomes, "put_failed")
    /\ UNCHANGED <<pending, served, case_title, screenshot_urls, env, key,
                   processed_images, messages, response, world>>

\* FormatReturn adding the image items only when no entry was dropped
FormatReturn_AllOrNothing ==
    /\ pc = "loop"
    /\ idx > Len(screenshot_urls)
    /\ messages' = IF Len(processed_images) = Len(screenshot_urls)
                   THEN [messages EXCEPT ![2].content = @ \o processed_images]
                   ELSE messages
    /\ pc' = "await"
    /\ UNCHANGED <<pending, served, case_title, screenshot_urls, env, idx, key, put,
                   processed_images, outcomes, response, world>>

\* ai.py lines 139-141: the image items are added to the user message and
\* the list of the two messages is returned
FormatReturn ==
    /\ pc = "loop"
    /\ idx > Len(screenshot_urls)
    /\ messages' = [messages EXCEPT ![2].content = @ \o processed_images]
    /\ pc' = "await"
    /\ UNCHANGED <<pending, served, case_title, screenshot_urls, env, idx, key, put,
                   processed_images, outcomes, response, world>>

\* AwaitRaise without the `except Exception` clause: the TypeError leaves the
\* handler, which never decides a response
AwaitRaise_Escapes ==
    /\ pc = "await"
    /\ pc' = "escaped"
    /\ UNCHANGED <<pending, served, case_title, screenshot_urls, env, idx, key, put,
                   processed_images, outcomes, messages, response, world>>

\* AwaitRaise deleting the objects of the request before it answers
AwaitRaise_Compensate ==
    /\ pc = "await"
    /\ response' = FormatStageResponse("TypeError", AwaitListMessage)
    /\ storage' = {o \in storage : o.req # served}
    /\ pc' = "done"
    /\ UNCHANGED <<pending, served, case_title, screenshot_urls, env, idx, key, put,
                   processed_images, outcomes, messages, rows, modelLog, putLog, nextUuid>>

\* main.py lines 69, 87-92: format_messages is a plain function and what it
\* returned is a list; `await` on a list raises TypeError, which the
\* `except Exception` clause turns into the response
AwaitRaise ==
    /\ pc = "await"
    /\ response' = FormatStageResponse("TypeError", AwaitListMessage)
    /\ pc' = "done"
    /\ UNCHANGED <<pending, served, case_title, screenshot_urls, env, idx, key, put,
                   processed_images, outcomes, messages, world>>

\* the response is sent and the handler's frame is dropped
Finish ==
    /\ pc = "done"
    /\ pc' = "idle"
    /\ case_title' = ""
    /\ screenshot_urls' = <<>>
    /\ env' = IdleEnv
    /\ idx' = 0
    /\ key' = NoKey
    /\ put' = NoPut
    /\ processed_images' = <<>>
    /\ outcomes' = <<>>
    /\ messages' = <<>>
    /\ response' = NoResponse
    /\ UNCHANGED <<pending, served, world>>

Next ==
    \/ Arrive
    \/ Start
    \/ ValidateReject
    \/ ValidatePass
    \/ FormatBegin
    \/ LoopSkip
    \/ LoopUploadRaise
    \/ LoopUploadCall
    \/ PutOk
    \/ PutFail
    \/ FormatReturn
    \/ AwaitRaise
    \/ Finish

Spec == Init /\ [][Next]_vars

\* one client posts one request
ArriveSingle ==
    /\ pending = 0
    /\ served = 0
    /\ pending' = 1
    /\ UNCHANGED <<served, frame, world>>

\* every step of the server: the interpreter goes on with the handler, and
\* put_object returns or raises
ServerStep ==
    \/ Start
    \/ ValidateReject
    \/ ValidatePass
    \/ FormatBegin
    \/ LoopSkip
    \/ LoopUploadRaise
    \/ LoopUploadCall
    \/ PutOk
    \/ PutFail
    \/ FormatReturn
    \/ AwaitRaise
    \/ Finish

LiveNext == ArriveSingle \/ ServerStep

\* the server serving one request, when it keeps running and every external
\* call ends
LiveSpec == Init /\ [][LiveNext]_vars /\ WF_vars(ServerStep)

\* ------------------------------------------------------------ type check
TypeOK ==
    /\ pending \in 0..MaxRequests
    /\ served \in 0..MaxRequests
    /\ pc \in {"idle", "validate", "format", "loop", "put", "await", "done"}
    /\ case_title \in Titles
    /\ screenshot_urls \in UrlLists
    /\ env \in Envs
    /\ response.status \in {0, 400, 500}

\* --------------------------------------------- vocabulary of the claims
Done == pc = "done"
Valid == Validation(case_title, screenshot_urls) = "ok"
NumImages == Len(screenshot_urls)

\* the image references of a payload: the user content past the text item
ImageRefs(msgs) == SubSeq(msgs[2].content, 2, Len(msgs[2].content))

\* the entries of the running request the loop uploaded, in input order
UploadedPositions == {k \in 1..Len(outcomes) : outcomes[k] = "uploaded"}
NumUploaded == Cardinality(UploadedPositions)
NumFailed == NumImages - NumUploaded

\* what the running request did to the outside world
MyObjects == {o \in storage : o.req = served}
MyModelCalls == {k \in 1..Len(modelLog) : modelLog[k].req = served}
MyRows == {r \in rows : r.req = served}

\* the analysis the provider answers with when it is up
ScriptedAnalysis ==
    [translations |-> <<[index |-> 1, author |-> "a", vietnamese_text |-> "v",
                         english_text |-> "e", confidence |-> "high"]>>,
     summary |-> "s", key_points |-> "k"]

\* the three kinds of payload of the Image Normalizer
IsDataUriAllowed(p) ==
    /\ StartsWith(p, <<"data", ":">>)
    /\ Contains(p, <<";", "base64", ",">>)
    /\ \E t \in allowed_types : StartsWith(p, <<"data", ":">> \o t)
IsRawBase64(p) ==
    /\ p # <<>>
    /\ ~Contains(p, <<":">>)
    /\ B64Count(p) > 0
    /\ B64Decode(p).ok
IsRemoteUrl(p) == StartsWith(p, <<"blob", ":">>) \/ StartsWith(p, <<"http", ":">>)

\* the mime type a data URI declares: what stands between "data:" and the
\* first ';' or ','
DeclaredType(p) == Split(Split(SplitOnce(p, <<",">>)[1], <<":">>)[2], <<";">>)[1]

\* ---------------------------------------------------------------- claims

\* C1: a request that passes validation and whose N >= 1 images all upload
\* ends with one model call carrying the text item and the N image
\* references in input order, and with a 200 response carrying the analysis.
C1_AllImagesSucceed ==
    (Done /\ Valid /\ NumImages >= 1 /\ NumUploaded = NumImages) =>
        /\ response.status = 200
        /\ Cardinality(MyModelCalls) = 1
        /\ \A k \in MyModelCalls :
              /\ modelLog[k].messages = messages
              /\ ImageRefs(modelLog[k].messages) = processed_images
              /\ Len(ImageRefs(modelLog[k].messages)) = NumImages

\* C2: a request of which k images fail, 0 < k < N, still ends with a 200
\* response, the model being called with the N-k remaining references.
C2_PartialFailureSucceeds ==
    (Done /\ Valid /\ 0 < NumFailed /\ NumFailed < NumImages) =>
        /\ response.status = 200
        /\ Cardinality(MyModelCalls) = 1
        /\ \A k \in MyModelCalls :
              Len(ImageRefs(modelLog[k].messages)) = NumImages - NumFailed

\* C3: a request that passes validation and whose images all fail ends with
\* a 400-class response, without a model call and without an insert.
C3_AllImagesFail ==
    (Done /\ Valid /\ NumUploaded = 0) =>
        /\ response.status \in 400..499
        /\ MyModelCalls = {}
        /\ MyRows = {}

\* C4: when the model call would succeed and the insert would raise, the
\* response is 200 with a null case_id, the request title and the analysis.
C4_InsertFailureStill200 ==
    (Done /\ Valid /\ NumUploaded >= 1 /\ env.model = "ok" /\ env.db = "raises") =>
        /\ response.status = 200
        /\ response.case_id = Null
        /\ response.title = case_title
        /\ response.analysis = ScriptedAnalysis

\* C6: a request with an empty title, an empty image list or an empty image
\* entry is answered 400 and runs no later stage: nothing is uploaded, the
\* model is not called, nothing is inserted.
InvalidRequest ==
    \/ case_title = ""
    \/ screenshot_urls = <<>>
    \/ \E k \in 1..Len(screenshot_urls) : screenshot_urls[k] = Empty

C6_InvalidRequestRejected ==
    (pc # "idle" /\ InvalidRequest) =>
        /\ pc \in {"validate", "done"}
        /\ Done => response.status = 400
        /\ MyObjects = {}
        /\ MyModelCalls = {}
        /\ MyRows = {}

C6_Witness ==
    /\ Done
    /\ case_title # ""
    /\ screenshot_urls = <<PngUri, Empty>>
    /\ response.status = 400

\* C7: each payload of the three supported kinds (data URI of an allowed
\* type, raw base64, remote or blob: URL) yields one uploaded image that is
\* part of the prompt, unless put_object itself fails.
C7_ThreeKindsUploaded ==
    (pc \in {"await", "done"} /\ Valid) =>
        \A k \in 1..NumImages :
            ( /\ \/ IsDataUriAllowed(screenshot_urls[k])
                 \/ IsRawBase64(screenshot_urls[k])
                 \/ IsRemoteUrl(screenshot_urls[k])
              /\ outcomes[k] # "put_failed" )
            => /\ outcomes[k] = "uploaded"
               /\ Len(ImageRefs(messages)) = NumUploaded

\* C8: put_object is only ever called for a payload whose declared type is
\* in the allow-list, and with that declared type as ContentType.
C8_OnlyAllowedTypesStored ==
    (pc = "put") =>
        /\ DeclaredType(screenshot_urls[idx]) \in allowed_types
        /\ put.ContentType = DeclaredType(screenshot_urls[idx])

\* C9: a request inserts at most one row; a row of the request exists if and
\* only if its response is 200 with the row's id as case_id; and a request
\* whose uploads, model call and insert all succeed has exactly one row.
C9_RowIffSuccess ==
    Done =>
        /\ Cardinality(MyRows) <= 1
        /\ (MyRows # {}) <=> (response.status = 200 /\ \E r \in MyRows : response.case_id = r.id)
        /\ (Valid /\ NumUploaded >= 1 /\ env.model = "ok" /\ env.db = "ok")
              => Cardinality(MyRows) = 1

\* C10: the row written for a request whose stages all succeed holds the
\* image URLs of the request's model payload, in order, and the model's
\* translations.
C10_RowRoundTrip ==
    (Done /\ Valid /\ NumUploaded >= 1 /\ env.model = "ok" /\ env.db = "ok") =>
        \E r \in MyRows :
            /\ r.images = [k \in 1..Len(ImageRefs(messages)) |->
                              ImageRefs(messages)[k].image_url.url]
            /\ r.translations = ScriptedAnalysis.translations

\* C11: while a request waits in an external call (here put_object, the only
\* one the handler reaches), a request that waits for the server can be
\* started and make progress.
C11_OtherRequestProgresses ==
    (pc = "put" /\ pending > 0) => ENABLED Start

\* C12: the keys passed to put_object are pairwise distinct, within a
\* request and across requests, for identical and for different payloads;
\* every stored object is the one some call of the log put there.
C12_KeysNeverCollide ==
    /\ \A a, b \in 1..Len(putLog) : a # b => putLog[a].Key # putLog[b].Key
    /\ \A o \in storage : \E a \in 1..Len(putLog) :
          putLog[a].Key = o.Key /\ putLog[a].req = o.req
    /\ Cardinality(storage) <= Len(putLog)

\* two requests with the same single payload, both uploaded
C12_Witness ==
    /\ Len(putLog) = 2
    /\ putLog[1].req = 1
    /\ putLog[2].req = 2
    /\ Cardinality({o \in storage : o.Body = B64Decode(<<"QUJD">>).data
                                     /\ o.ContentType = Mime("png")}) = 2

\* C13 as stated: the stage is all-or-nothing, format_messages hands back a
\* payload only with a reference for every image the request supplied, and
\* the model is never called with fewer.
C13_AllOrNothing ==
    /\ (pc = "await") => Len(ImageRefs(messages)) = NumImages
    /\ \A k \in MyModelCalls : Len(ImageRefs(modelLog[k].messages)) = NumImages

\* C13 amended: the stage is soft-fail, an image that fails is dropped and
\* format_messages still returns a payload, with one reference per image
\* that uploaded; the model is never called with fewer references than the
\* request supplied.
C13_SoftFail ==
    /\ (pc \in {"await", "done"} /\ Valid) =>
          /\ Len(outcomes) = NumImages
          /\ Len(ImageRefs(messages)) = NumUploaded
    /\ \A k \in MyModelCalls : Len(ImageRefs(modelLog[k].messages)) = NumImages

C13_Witness ==
    /\ pc = "await"
    /\ NumImages = 2
    /\ outcomes = <<"put_failed", "uploaded">>
    /\ Len(ImageRefs(messages)) = 1

\* the key of the put_object call the running request made for entry k
KeyOfEntry(k) ==
    putLog[CHOOSE a \in 1..Len(putLog) : putLog[a].req = served /\ putLog[a].pos = k].Key

\* the references of the uploaded entries k..NumImages, in input order
RECURSIVE RefsFrom(_)
RefsFrom(k) ==
    IF k > NumImages THEN <<>>
    ELSE (IF outcomes[k] = "uploaded"
          THEN <<ImageItem(PermanentUrl(KeyOfEntry(k)))>> ELSE <<>>) \o RefsFrom(k + 1)

\* C14: format_messages tries every entry, whatever happened to the earlier
\* ones, and returns one system message and one user message whose content
\* is the text item followed by the references of the uploaded entries in
\* input order.
C14_PayloadInInputOrder ==
    (pc \in {"await", "done"} /\ Valid) =>
        /\ Len(outcomes) = NumImages
        /\ Len(messages) = 2
        /\ messages[1].role = "system"
        /\ messages[2].role = "user"
        /\ messages[2].content[1] = [type |-> "text", text |-> UserPrompt(case_title, Null)]
        /\ ImageRefs(messages) = RefsFrom(1)

C14_Witness ==
    /\ pc = "await"
    /\ outcomes = <<"uploaded", "uploaded">>
    /\ Len(ImageRefs(messages)) = 2
    /\ ImageRefs(messages)[1].image_url.url.path.token
          < ImageRefs(messages)[2].image_url.url.path.token

\* C15: within a request the stages follow one another in order: put_object
\* is called only inside format_messages of a request that passed
\* validation, the model is called only once the loop over the images is
\* over and no response is decided, a row is inserted only after a model
\* call of the request, and once an error response is decided the request
\* uploads nothing, calls no model and inserts nothing.
C15_StageOrder ==
    [][ /\ (putLog' # putLog) => (pc = "loop" /\ Valid /\ response = NoResponse)
        /\ (storage' # storage) => (pc = "put" /\ Valid /\ response = NoResponse)
        /\ (modelLog' # modelLog) =>
              (pc \notin {"validate", "format", "loop", "put"} /\ response = NoResponse)
        /\ (rows' # rows) => (MyModelCalls # {} /\ response = NoResponse)
        /\ (response.status >= 400) =>
              (storage' = storage /\ putLog' = putLog /\ modelLog' = modelLog
               /\ rows' = rows /\ pc' \in {"done", "idle"})
      ]_vars

\* a request that was validated, uploaded an image and then ended in error
C15_Witness ==
    /\ Done
    /\ Valid
    /\ response.status = 500
    /\ \E a \in 1..Len(putLog) : putLog[a].req = served
    /\ Len(outcomes) = NumImages

\* C16: no step deletes or replaces a stored object, and the objects a
\* request uploaded are still stored when it has answered 400 or 500.
C16_NoCompensation ==
    [][ /\ \A o \in storage : o \in storage'
        /\ (Done' /\ response'.status \in {400, 500}) =>
              \A a \in 1..Len(putLog') :
                  (putLog'[a].req = served' /\ outcomes'[putLog'[a].pos] = "uploaded")
                      => \E o \in storage' : o.Key = putLog'[a].Key
      ]_vars

\* a request that uploaded an image and answered 500: the object is there
C16_Witness ==
    /\ Done
    /\ response.status = 500
    /\ \E o \in storage : o.req = served /\ o.ContentType = Mime("png")
    /\ NumUploaded >= 1

\* an image item that holds the canonical URL of an object the running
\* request has stored
IsStoredRef(item) ==
    /\ item.type = "image_url"
    /\ item.image_url.url.scheme = "https"
    /\ item.image_url.url.host = <<Bucket, ".s3.amazonaws.com">>
    /\ \E o \in storage : o.req = served /\ o.Key = item.image_url.url.path

\* C17: every image reference of a payload, while it is built and once it
\* is returned, is the canonical URL of an object that a put_object of the
\* same request stored before; never the URL of a failed upload.
C17_RefsAreStoredObjects ==
    /\ \A k \in 1..Len(processed_images) : IsStoredRef(processed_images[k])
    /\ (messages # <<>>) =>
          \A k \in 1..Len(ImageRefs(messages)) : IsStoredRef(ImageRefs(messages)[k])

C17_Witness ==
    /\ pc = "await"
    /\ outcomes = <<"uploaded", "put_failed">>
    /\ Len(ImageRefs(messages)) = 1
    /\ IsStoredRef(ImageRefs(messages)[1])

\* the request was accepted by the server; the request has its response
Accepted == pending + served >= 1
Answered == served = 1 /\ pc \in {"done", "idle"}

\* C18: when every external call returns or raises, an accepted request
\* ends with a response, which is a 200 body or an error 400 or 500 with a
\* detail, and a response once decided is not replaced by another one.
C18_EveryRequestAnswered ==
    /\ Accepted ~> Answered
    /\ [](Done => \/ response.status = 200
                  \/ response.status \in {400, 500} /\ response.detail # <<>>)
    /\ [][(response # NoResponse) => (response' \in {response, NoResponse})]_vars

\* a validated request that tried every image was answered 500 with its detail
C18_Witness ==
    /\ Done
    /\ Valid
    /\ Len(outcomes) = MaxImages
    /\ response = FormatStageResponse("TypeError", AwaitListMessage)
    /\ put = NoPut

\* C19: the uploads of one request run concurrently: while the put_object
\* of an entry is in flight, the loop can go on to a later entry.
C19_UploadsOverlap ==
    (pc = "put" /\ idx < NumImages) =>
        ENABLED (LoopSkip \/ LoopUploadRaise \/ LoopUploadCall)

====
